---------------------------- MODULE Spec2Model ----------------------------
(*
  News ingestion and deduplication pipeline of the news server:
    services/fetchNews.ts      tryFetch / fetchNews   (flag-guarded trigger)
    controllers (part_016)     NewsController.fetchApi (admin trigger, cooldown)
    services/apiNews.ts        apiData, delay
    services/saveImageUrl.ts   saveUrlImage
    models/mysql/news.ts       NewsModel.addNewsList, insertNewsItem,
                               insertSubnews, getOrCreateGenreId,
                               checkFetchDate, updateFetchDate
    dev_resources/dbCreation.ts  tables news, news_x_subnews, genre, last_pull

  Every `await` of the code is one step of the model.  The database is
  MySQL/InnoDB: each addNewsList call works on its own connection inside a
  transaction (pending rows are invisible to others until commit, reads see
  the snapshot taken at the transaction's first SELECT plus its own writes),
  while getOrCreateGenreId, checkFetchDate and updateFetchDate go through the
  pool in autocommit mode.
*)
EXTENDS Integers, Sequences, FiniteSets, Bags, TLC

-----------------------------------------------------------------------------
(* Bounds of the model *)

NumRuns == 2
NumCats == 2
MaxTopUrl == 2
MaxUrl == 3
MaxItems == 1
MaxSubs == 1
MaxFeedChanges == 1
TicksPerDay == 2
MaxDays == 13
MaxAdminOps == 2
MaxOrderItems == 2
MaxOrderSubs == 2

(* Program constants *)

CooldownDays == 10

CategoryEnum ==
  <<"entertainment", "world", "business", "health", "sport", "science", "technology">>

Min(a, b) == IF a < b THEN a ELSE b

Categories == SubSeq(CategoryEnum, 1, Min(NumCats, Len(CategoryEnum)))

Runs == 1..NumRuns

NoRow == -1

-----------------------------------------------------------------------------
(* Provider payloads: welcomeSchema / itemSchema / subNewsSchema *)

SeqsUpTo(S, n) == UNION {[1..k -> S] : k \in 0..n}

\* images.thumbnail is optional(string()): absent, the empty string, or an
\* address.
Thumbnail == {"absent", "empty", "url"}

\* image_url as the provider sends it: not set.
NoImage == "null"

SubNewsItem == [newsUrl : 1..MaxUrl, thumbnail : Thumbnail, image_url : {NoImage}]

\* hasSubnews is a required boolean, subnews is optional(nullable(array)).
\* An item that declares hasSubnews = false never has its list read.
NewsItem ==
  [newsUrl : 1..MaxTopUrl, hasSubnews : {FALSE}, subPresent : {FALSE}, subnews : {<<>>},
   thumbnail : Thumbnail, image_url : {NoImage}]
  \cup
  [newsUrl : 1..MaxTopUrl, hasSubnews : {TRUE}, subPresent : {FALSE}, subnews : {<<>>},
   thumbnail : Thumbnail, image_url : {NoImage}]
  \cup
  [newsUrl : 1..MaxTopUrl, hasSubnews : {TRUE}, subPresent : {TRUE},
   subnews : SeqsUpTo(SubNewsItem, MaxSubs),
   thumbnail : Thumbnail, image_url : {NoImage}]

NewsImput == SeqsUpTo(NewsItem, MaxItems)

\* The payloads whose items carry no thumbnail.
PlainImput ==
  {b \in NewsImput :
     \A j \in 1..Len(b) :
       /\ b[j].thumbnail = "absent"
       /\ \A k \in 1..Len(b[j].subnews) : b[j].subnews[k].thumbnail = "absent"}

Feeds == [1..Len(Categories) -> PlainImput]

-----------------------------------------------------------------------------
VARIABLES
  news,        \* table news (committed rows)
  links,       \* table news_x_subnews (committed rows, a bag of <<parent, child>>)
  genre,       \* table genre (set of names)
  fecha,       \* last_pull.fecha of row id = 1, or NoRow
  now,         \* the clock, in ticks
  isFetching,  \* services/fetchNews.ts: isFetching
  feed,        \* what the provider currently serves per category
  feedChanges, \* number of provider content changes so far
  run,         \* per trigger invocation: position and locals
  tx,          \* per trigger invocation: the transaction of its connection
  admin        \* the administrative requests so far and the answer to the last

vars == <<news, links, genre, fecha, now, isFetching, feed, feedChanges, run, tx, admin>>

Merge(rec, upd) ==
  [f \in DOMAIN rec |-> IF f \in DOMAIN upd THEN upd[f] ELSE rec[f]]

NoRes == [status |-> "none", http |-> 0, err |-> "none", n |-> 0]

\* Nothing handed to the invoker.
NoTold == [status |-> "none", cause |-> "none", cat |-> 0]

IdleRun ==
  [pc |-> "idle", kind |-> "none", ci |-> 1, batch |-> <<>>, ii |-> 1, si |-> 1,
   uuid |-> 0, sonId |-> 0, genreId |-> 0, aux |-> 0, err |-> "none",
   hist |-> <<>>, after |-> {}, reqs |-> 0, work |-> {}, cool |-> FALSE,
   log |-> <<>>, made |-> {}, res |-> NoRes, told |-> NoTold]

\* No administrative request yet.
NoAdmin == [ops |-> 0, op |-> "none", http |-> 0, n |-> 0]

NoTx == [open |-> FALSE, hasSnap |-> FALSE, snap |-> {}, ins |-> {}, upd |-> {},
         lnk |-> EmptyBag]


-----------------------------------------------------------------------------
(* The database: dev_resources/dbCreation.ts *)

\* i.images?.thumbnail ?? null
OrNull(v) == IF v = "absent" THEN NoImage ELSE v

\* Variant: the INSERT binds another value to the news_url column.
NewsRowWrongColumn(id, i, hasSub, genreId) ==
  [id |-> id, url |-> MaxUrl + id, hasSub |-> hasSub, genre |-> genreId, active |-> TRUE,
   thumbnail |-> OrNull(i.thumbnail), image |-> i.image_url]

\* The row an INSERT INTO news makes of an item or sub-item i: the columns
\* given, is_active by default (title, snippet, publisher and created are
\* given in the same way as thumbnail and are written by no other statement).
NewsRow(id, i, hasSub, genreId) ==
  [id |-> id, url |-> i.newsUrl, hasSub |-> hasSub, genre |-> genreId, active |-> TRUE,
   thumbnail |-> OrNull(i.thumbnail), image |-> i.image_url]

\* INSERT INTO genre (id, name) VALUES (1, 'entertainment'), ... (7, 'technology')
SeededGenre == {[id |-> k, name |-> CategoryEnum[k]] : k \in 1..Len(CategoryEnum)}

OtherTx(r) == {q \in Runs \ {r} : tx[q].open}

\* Consistent read of a transaction: the snapshot of its first SELECT plus
\* its own pending rows.
Visible(r) == (IF tx[r].hasSnap THEN tx[r].snap ELSE news) \cup tx[r].ins

\* SELECT BIN_TO_UUID(id) as id FROM news WHERE news_url = ?
SelectByUrl(r, u) == {row \in Visible(r) : row.url = u}

TakeSnap(t) == IF t.hasSnap THEN t ELSE Merge(t, [hasSnap |-> TRUE, snap |-> news])

\* Variant: the column news_url is not unique.
UrlTakenNever(r, u) == FALSE

\* news_url varchar(500) not null unique
UrlTaken(r, u) == \E row \in news \cup tx[r].ins : row.url = u

\* An insert waits for the lock when another open transaction holds a pending
\* row with the same unique key.
UrlLocked(r, u) == \E q \in OtherTx(r) : \E row \in tx[q].ins : row.url = u

\* Row locks: exclusive by a pending UPDATE, shared by a pending foreign-key
\* reference of a link row.
RowLockedX(r, id) == \E q \in OtherTx(r) : id \in tx[q].upd

RowLockedS(r, id) ==
  \E q \in OtherTx(r) : \E l \in BagToSet(tx[q].lnk) : id = l[1] \/ id = l[2]

\* FOREIGN KEY (news_id) / (subnews_id) REFERENCES news(id)
RowExists(r, id) == \E row \in news \cup tx[r].ins : row.id = id

\* Variant: the two parameters of the link INSERT are bound in the other order.
LinkRowSwapped(p, c) == SetToBag({<<c, p>>})

\* VALUES (UUID_TO_BIN(?), UUID_TO_BIN(?)), [parentUuid, sonId]: one row of
\* news_x_subnews (its auto-increment id makes every row distinct).
LinkRow(p, c) == SetToBag({<<p, c>>})

\* Variant: the server parses the CHECK clause and does not enforce it.
CheckLinkIgnored(p, c) == TRUE

\* CONSTRAINT chk_subnews_unique CHECK (news_id <> subnews_id)
CheckLink(p, c) == p # c

UsedIds ==
  {row.id : row \in news}
  \cup UNION {{row.id : row \in tx[q].ins \cup tx[q].snap} : q \in Runs}
  \cup UNION {{run[q].uuid, run[q].sonId} : q \in Runs}
  \cup UNION {{l[1], l[2]} : l \in BagToSet(links)}

\* SELECT UUID(): an identifier no row and no caller holds (the least one,
\* identifiers being opaque).
FreshId ==
  CHOOSE i \in 1..(Cardinality(UsedIds) + 1) :
    i \notin UsedIds /\ \A j \in 1..(i - 1) : j \in UsedIds

\* Variant: the UPDATE of an existing article also sets is_active.
CommitNewsReactivates(r) ==
  {IF row.id \in tx[r].upd THEN [row EXCEPT !.hasSub = TRUE, !.active = TRUE] ELSE row :
     row \in news}
  \cup tx[r].ins

\* Variant: has_subnews is written when a row is inserted and by nothing else.
CommitNewsInsertsOnly(r) == news \cup tx[r].ins

\* Variant: the UPDATE of an existing article also sets news_genre to the
\* category being ingested.
CommitNewsRecategorises(r) ==
  {IF row.id \in tx[r].upd THEN [row EXCEPT !.hasSub = TRUE, !.genre = run[r].genreId]
   ELSE row : row \in news}
  \cup tx[r].ins

\* conn.commit(): the pending rows, updates and links become visible.
CommitNews(r) ==
  {IF row.id \in tx[r].upd THEN [row EXCEPT !.hasSub = TRUE] ELSE row : row \in news}
  \cup tx[r].ins

\* Variant: a pair (news_id, subnews_id) is stored once (a unique key on the
\* pair, or an insert gated on the pair being absent).
CommitLinksOncePerPair(r) == SetToBag(BagToSet(links (+) tx[r].lnk))

CommitLinks(r) == links (+) tx[r].lnk

\* Variant: the statements ran in autocommit mode, a rollback undoes nothing.
RollbackNewsAutocommit(r) == CommitNews(r)

\* conn.rollback(): nothing of the transaction becomes visible.
RollbackNews(r) == news

\* Variant: a failure undoes the link rows of the whole run, not of the
\* category alone.
RollbackLinksWholeRun(r) == EmptyBag

RollbackLinks(r) == links

-----------------------------------------------------------------------------
(* Cooldown arithmetic: NewsModel.checkFetchDate *)

CeilDiv(a, b) == IF a % b = 0 THEN a \div b ELSE (a \div b) + 1

\* Variant: diffDays <= 10.
CooldownActiveInclusive(t, last) == (t - last) <= CooldownDays * TicksPerDay

\* Variant: the comparison is made in whole days.
CooldownActiveWholeDays(t, last) == (t - last) \div TicksPerDay < CooldownDays - 1

\* diffDays < 10, with diffDays = diffMs / (1000 * 60 * 60 * 24)
CooldownActive(t, last) == (t - last) < CooldownDays * TicksPerDay

\* Variant: Math.floor in place of Math.ceil.
DaysRemainingFloor(t, last) == (CooldownDays * TicksPerDay - (t - last)) \div TicksPerDay

\* Math.ceil(10 - diffDays)
DaysRemaining(t, last) == CeilDiv(CooldownDays * TicksPerDay - (t - last), TicksPerDay)

-----------------------------------------------------------------------------
(* Control flow helpers *)

\* Locals of a finished call are gone.
Cleared ==
  [batch |-> <<>>, ii |-> 1, si |-> 1, uuid |-> 0, sonId |-> 0, genreId |-> 0,
   log |-> <<>>]

\* The statements of the current addNewsList call that wrote so far, in the
\* order of their execution: <<statement, item, sub-item>> (sub-item 0 for the
\* item itself).
Wrote(rr, stmt, k) == [log |-> Append(rr.log, <<stmt, rr.ii, k>>)]

Item(r) == run[r].batch[run[r].ii]

Sub(r) == Item(r).subnews[run[r].si]

InFlight(r) == run[r].pc \notin {"idle", "done"}

\* Variant: no catch / finally around the statements, the error goes straight
\* to the caller.
ThrownPastCatch(e) == [pc |-> "done", err |-> e] @@ Cleared

\* A statement throws inside the try block of addNewsList: the locals are
\* dead, the catch block is next.
Thrown(e) == [pc |-> "rollback", err |-> e] @@ Cleared

\* for (const i of news.items) ... await conn.commit()
NextItem(rr) ==
  IF rr.ii + 1 > Len(rr.batch)
    THEN [pc |-> "commit", ii |-> rr.ii + 1]
    ELSE [pc |-> "selItem", ii |-> rr.ii + 1]

\* Variant: the sub-items are taken from the end of the list.
AfterTopFromLast(rr) ==
  LET i == rr.batch[rr.ii] IN
  IF ~ i.hasSubnews THEN NextItem(rr)
  ELSE IF ~ i.subPresent THEN Thrown("TypeError")
  ELSE IF Len(i.subnews) = 0 THEN NextItem(rr)
  ELSE [pc |-> "selSub", si |-> Len(i.subnews)]

\* if (i.hasSubnews) await this.insertSubnews(i.subnews!, ...): iterating an
\* absent list throws a TypeError inside the try block.
AfterTop(rr) ==
  LET i == rr.batch[rr.ii] IN
  IF ~i.hasSubnews THEN NextItem(rr)
  ELSE IF ~i.subPresent THEN Thrown("TypeError")
  ELSE IF Len(i.subnews) = 0 THEN NextItem(rr)
  ELSE [pc |-> "selSub", si |-> 1]

\* for (const e of subnews)
AfterLink(rr) ==
  IF rr.si + 1 > Len(rr.batch[rr.ii].subnews)
    THEN NextItem(rr)
    ELSE [pc |-> "selSub", si |-> rr.si + 1]

\* What the invoker gets: fetchApi answers over HTTP, fetchNews only logs.
Result(kind, status, err, n) ==
  [status |-> status,
   http |-> IF kind = "fetchApi" THEN (IF status = "ok" THEN 200 ELSE 500) ELSE 0,
   err |-> err, n |-> n]

\* What a run has done so far: "fetch" a request to the provider, "resolve" a
\* call of saveUrlImage, "store" a call of addNewsList, "checkpoint" a call of
\* updateFetchDate.
Did(rr, w) == [work |-> rr.work \cup {w}]

\* apiData: axios.get, one request to the provider.
Requested(rr) == [reqs |-> rr.reqs + 1] @@ Did(rr, "fetch")

\* Whether less than the cooldown period has passed since the checkpoint.
InCooldown == fecha # NoRow /\ now - fecha < CooldownDays * TicksPerDay

\* The kind of cause an error message lets its reader tell.
Cause(err) ==
  CASE err \in {"provider", "status"} -> "provider"
    [] err = "validation" -> "validation"
    [] err \in {"storage", "norow", "ER_DUP_ENTRY", "ER_CHECK_CONSTRAINT_VIOLATED",
                "ER_NO_REFERENCED_ROW", "ER_LOCK"} -> "storage"
    [] err = "cooldown" -> "cooldown"
    [] OTHER -> "none"

\* What the invoker of the run is handed.  tryFetch returns at once and
\* fetchNews only logs what it catches.  fetchApi answers 500 with e.message,
\* and the one message that names a category is that of apiData for a status
\* other than 200.
Told(rr, status, err) ==
  IF rr.kind # "fetchApi" THEN NoTold
  ELSE IF status = "ok" THEN [status |-> "ok", cause |-> "none", cat |-> 0]
  ELSE [status |-> "error", cause |-> Cause(err),
        cat |-> IF err = "status" THEN rr.ci ELSE 0]

\* Variant: the try / catch is inside the loop, a category that fails before
\* it is stored is skipped.
EndedSkipsCategory(rr, status, err, n) ==
  IF status = "error" /\ rr.pc \in {"fetch", "resolve"} /\ rr.ci < Len(Categories)
    THEN [pc |-> "fetch", ci |-> rr.ci + 1]
    ELSE [pc |-> "done", res |-> Result(rr.kind, status, err, n),
          told |-> Told(rr, status, err)]

\* The catch of fetchApi / fetchNews: the run is over.
Ended(rr, status, err, n) ==
  [pc |-> "done", res |-> Result(rr.kind, status, err, n), told |-> Told(rr, status, err)]

\* Variant: isFetching is reset after the loop, not in a finally block.
EndRunKeepsFlag(r, status, err, n) ==
  /\ run' = [run EXCEPT ![r] =
               Merge(@, Ended(@, status, err, n) @@ Did(@, "checkpoint"))]
  /\ isFetching' = IF run[r].kind = "tryFetch" /\ status = "ok" THEN FALSE ELSE isFetching

\* updateFetchDate has answered or thrown: the end of the run, through the
\* catch / finally of fetchNews or the catch of fetchApi.
EndRun(r, status, err, n) ==
  /\ run' = [run EXCEPT ![r] =
               Merge(@, Ended(@, status, err, n) @@ Did(@, "checkpoint"))]
  /\ isFetching' = IF run[r].kind = "tryFetch" THEN FALSE ELSE isFetching


Finished(r) == {q \in Runs : run[q].pc = "done" /\ run[q].res.status # "noop"}

-----------------------------------------------------------------------------
(* Initial states *)

\* The schema as created (genres seeded), no article stored, nothing running.
Fresh ==
  /\ news = {}
  /\ links = EmptyBag
  /\ isFetching = FALSE
  /\ feedChanges = 0
  /\ run = [r \in Runs |-> IdleRun]
  /\ tx = [r \in Runs |-> NoTx]
  /\ admin = NoAdmin

\* The checkpoint row was written at time 0 and a cooldown period has passed.
Init ==
  /\ Fresh
  /\ genre = SeededGenre
  /\ fecha = 0
  /\ now = CooldownDays * TicksPerDay
  /\ feed \in Feeds

-----------------------------------------------------------------------------
(* Triggers *)

\* Trigger invocations are numbered in the order of their arrival.
IsNextCall(r) == run[r].pc = "idle" /\ \A q \in 1..(r - 1) : run[q].pc # "idle"

\* services/fetchNews.ts: tryFetch
TryFetch(r) ==
  /\ IsNextCall(r)
  /\ IF isFetching
       THEN /\ run' = [run EXCEPT ![r] =
                         Merge(@, [pc |-> "done", kind |-> "tryFetch",
                                   res |-> Result("tryFetch", "noop", "none", 0)])]
            /\ UNCHANGED isFetching
       ELSE /\ isFetching' = TRUE
            /\ run' = [run EXCEPT ![r] =
                         Merge(@, [pc |-> "fetch", kind |-> "tryFetch", ci |-> 1,
                                   aux |-> 0, after |-> Finished(r),
                                   cool |-> InCooldown])]
  /\ UNCHANGED <<admin, news, links, genre, fecha, now, feed, feedChanges, tx>>

\* NewsController.fetchApi: POST /news/fetch
FetchApi(r) ==
  /\ IsNextCall(r)
  /\ run' = [run EXCEPT ![r] =
               Merge(@, [pc |-> "check", kind |-> "fetchApi", ci |-> 1, aux |-> 0,
                         after |-> Finished(r)])]
  /\ UNCHANGED <<admin, news, links, genre, fecha, now, isFetching, feed, feedChanges, tx>>

\* NewsModel.checkFetchDate
CheckFetchDate(r) ==
  /\ run[r].pc = "check"
  /\ run' = [run EXCEPT ![r] =
       Merge(@, [cool |-> InCooldown] @@
                (IF fecha = NoRow
                   THEN Ended(@, "error", "norow", 0)
                   ELSE IF CooldownActive(now, fecha)
                     THEN Ended(@, "error", "cooldown", DaysRemaining(now, fecha))
                     ELSE [pc |-> "fetch"]))]
  /\ UNCHANGED isFetching
  /\ UNCHANGED <<admin, news, links, genre, fecha, now, feed, feedChanges, tx>>

-----------------------------------------------------------------------------
(* Per category: apiData, saveUrlImage, addNewsList, delay *)

\* services/apiNews.ts: apiData answers with the validated payload
ApiData(r) ==
  /\ run[r].pc = "fetch"
  /\ run' = [run EXCEPT ![r] =
               Merge(@, [pc |-> "resolve", batch |-> feed[@.ci]] @@ Requested(@))]
  /\ UNCHANGED <<admin, news, links, genre, fecha, now, isFetching, feed, feedChanges, tx>>

\* How apiData fails: axios.get rejects ("provider": no answer, or a status
\* outside 2xx), the answer has a status other than 200 ("status"), or the
\* payload fails validateApiNews ("validation").
ApiErrors == {"provider", "status", "validation"}

\* Variant: apiData asks the provider again after a failure.
AfterApiErrorRetry(rr, e) ==
  IF rr.reqs + 1 < rr.ci + 1 THEN [pc |-> "fetch"] ELSE Ended(rr, "error", e, 0)

\* apiData throws and nothing between it and the catch of the run calls it
\* again.
AfterApiError(rr, e) == Ended(rr, "error", e, 0)

\* apiData throws: response.status !== 200 / the payload fails validateApiNews
ApiDataFails(r) ==
  /\ run[r].pc = "fetch"
  /\ \E e \in ApiErrors :
       run' = [run EXCEPT ![r] = Merge(@, AfterApiError(@, e) @@ Requested(@))]
  /\ isFetching' = IF run[r].kind = "tryFetch" /\ run'[r].pc = "done"
                     THEN FALSE ELSE isFetching
  /\ UNCHANGED <<admin, news, links, genre, fecha, now, feed, feedChanges, tx>>

\* What axios.get(url, {maxRedirects: 5, validateStatus: () => true}) gives:
\* it throws (host unreachable, malformed address, too many redirects), or
\* answers with a status and the address the redirects ended at (missing or
\* not a string, blank, or an address).
HttpStatus == {200, 404, 500}

Unreachable == [status |-> 0, final |-> "none"]

Outcomes == {Unreachable} \cup [status : HttpStatus, final : {"none", "blank", "url"}]

Returned(v) == [raised |-> FALSE, value |-> v]

Raised == [raised |-> TRUE, value |-> NoImage]

\* Variant: the request is made outside the try block.
ResolveImageUrlNoCatch(url, o) ==
  IF url \in {"absent", "empty", "notString"} THEN Returned(NoImage)
  ELSE IF o = Unreachable THEN Raised
  ELSE IF o.final \in {"none", "blank"} THEN Returned(NoImage)
  ELSE Returned("final")

\* services/saveImageUrl.ts: resolveImageUrl
ResolveImageUrl(url, o) ==
  IF url \in {"absent", "empty", "notString"} THEN Returned(NoImage)
  ELSE IF o = Unreachable THEN Returned(NoImage)
  ELSE IF o.final \in {"none", "blank"} THEN Returned(NoImage)
  ELSE Returned("final")

\* The thumbnails saveUrlImage asks the network for: <<item, 0>> for an item,
\* <<item, k>> for its k-th sub-item (read when hasSubnews && subnews).
Requests(b) ==
  {<<j, 0>> : j \in {i \in 1..Len(b) : b[i].thumbnail = "url"}}
  \cup UNION {{<<j, k>> : k \in {i \in 1..Len(b[j].subnews) :
                                    b[j].hasSubnews /\ b[j].subnews[i].thumbnail = "url"}} :
              j \in 1..Len(b)}

Resolved(b, f, j, k) ==
  LET url == IF k = 0 THEN b[j].thumbnail ELSE b[j].subnews[k].thumbnail IN
  ResolveImageUrl(url, IF <<j, k>> \in DOMAIN f THEN f[<<j, k>>] ELSE Unreachable)

\* row.image_url = await resolveImageUrl(...), sub.image_url = await ...
WithImages(b, f) ==
  [j \in 1..Len(b) |->
     [b[j] EXCEPT
        !.image_url = Resolved(b, f, j, 0).value,
        !.subnews = [k \in 1..Len(b[j].subnews) |->
                       IF b[j].hasSubnews
                         THEN [b[j].subnews[k] EXCEPT
                                 !.image_url = Resolved(b, f, j, k).value]
                         ELSE b[j].subnews[k]]]]

AnyRaised(b, f) ==
  \E j \in 1..Len(b) :
    \/ Resolved(b, f, j, 0).raised
    \/ b[j].hasSubnews /\ \E k \in 1..Len(b[j].subnews) : Resolved(b, f, j, k).raised

\* services/saveImageUrl.ts: saveUrlImage
SaveUrlImage(r) ==
  /\ run[r].pc = "resolve"
  /\ \E f \in [Requests(run[r].batch) -> Outcomes] :
       run' = [run EXCEPT ![r] =
                 IF AnyRaised(@.batch, f)
                   THEN Merge(@, Ended(@, "error", "resolve", 0) @@ Cleared
                                 @@ Did(@, "resolve"))
                   ELSE Merge(@, [pc |-> "begin", batch |-> WithImages(@.batch, f)]
                                 @@ Did(@, "resolve"))]
  /\ isFetching' = IF run[r].kind = "tryFetch" /\ run'[r].pc = "done"
                     THEN FALSE ELSE isFetching
  /\ UNCHANGED <<admin, news, links, genre, fecha, now, feed, feedChanges, tx>>

\* addNewsList: connection.getConnection(), conn.beginTransaction()
Begin(r) ==
  /\ run[r].pc = "begin"
  /\ tx' = [tx EXCEPT ![r] = Merge(NoTx, [open |-> TRUE])]
  /\ run' = [run EXCEPT ![r] = Merge(@, [pc |-> "genre"] @@ Did(@, "store"))]
  /\ UNCHANGED <<admin, news, links, genre, fecha, now, isFetching, feed, feedChanges>>

FirstItem(rr) ==
  IF Len(rr.batch) = 0 THEN [pc |-> "commit", ii |-> 1] ELSE [pc |-> "selItem", ii |-> 1]

\* getOrCreateGenreId: SELECT id FROM genre WHERE name = ? (on the pool)
GenreSelect(r) ==
  /\ run[r].pc = "genre"
  /\ LET name == Categories[run[r].ci]
         rows == {g \in genre : g.name = name}
     IN IF rows # {}
          THEN run' = [run EXCEPT ![r] =
                         Merge(@, [genreId |-> (CHOOSE g \in rows : TRUE).id] @@ FirstItem(@))]
          ELSE run' = [run EXCEPT ![r].pc = "genreIns"]
  /\ UNCHANGED <<admin, news, links, genre, fecha, now, isFetching, feed, feedChanges, tx>>

NextGenreId == IF genre = {} THEN 1 ELSE 1 + (CHOOSE m \in {g.id : g \in genre} :
                                               \A g \in genre : g.id <= m)

\* getOrCreateGenreId: INSERT INTO genre (name) VALUES (?) and the second
\* SELECT, both on the pool (autocommit); name is unique.
GenreInsert(r) ==
  /\ run[r].pc = "genreIns"
  /\ LET name == Categories[run[r].ci] IN
     IF \E g \in genre : g.name = name
       THEN /\ run' = [run EXCEPT ![r] = Merge(@, Thrown("ER_DUP_ENTRY"))]
            /\ UNCHANGED genre
       ELSE /\ genre' = genre \cup {[id |-> NextGenreId, name |-> name]}
            /\ run' = [run EXCEPT ![r] =
                         Merge(@, [genreId |-> NextGenreId,
                                   made |-> @.made \cup {@.ci}] @@ FirstItem(@))]
  /\ UNCHANGED <<admin, news, links, fecha, now, isFetching, feed, feedChanges, tx>>

\* addNewsList: SELECT ... FROM news WHERE news_url = ? for the top-level item
SelectItem(r) ==
  /\ run[r].pc = "selItem"
  /\ tx' = [tx EXCEPT ![r] = TakeSnap(@)]
  /\ LET rows == SelectByUrl(r, Item(r).newsUrl) IN
     IF rows # {}
       THEN LET id == (CHOOSE row \in rows : TRUE).id IN
            run' = [run EXCEPT ![r] =
                      IF Item(r).hasSubnews
                        THEN Merge(@, [pc |-> "updItem", uuid |-> id])
                        ELSE Merge(@, AfterTop(@) @@ [uuid |-> id])]
       ELSE run' = [run EXCEPT ![r].pc = "insItem"]
  /\ UNCHANGED <<admin, news, links, genre, fecha, now, isFetching, feed, feedChanges>>

\* addNewsList: UPDATE news SET has_subnews = ? WHERE id = UUID_TO_BIN(?)
UpdateItem(r) ==
  /\ run[r].pc = "updItem"
  /\ ~ RowLockedX(r, run[r].uuid)
  /\ ~ RowLockedS(r, run[r].uuid)
  /\ LET id == run[r].uuid IN
     tx' = [tx EXCEPT ![r] =
              IF \E row \in @.ins : row.id = id
                THEN Merge(@, [ins |-> {IF row.id = id THEN [row EXCEPT !.hasSub = TRUE]
                                        ELSE row : row \in @.ins}])
                ELSE Merge(@, [upd |-> @.upd \cup {id}])]
  /\ run' = [run EXCEPT ![r] = Merge(@, AfterTop(@) @@ Wrote(@, "update", 0))]
  /\ UNCHANGED <<admin, news, links, genre, fecha, now, isFetching, feed, feedChanges>>

\* addNewsList: SELECT UUID(), then insertNewsItem: INSERT IGNORE INTO news.
\* A duplicate news_url is ignored without an error and without a row.
InsertNewsItem(r) ==
  /\ run[r].pc = "insItem"
  /\ ~ UrlLocked(r, Item(r).newsUrl)
  /\ LET id == FreshId
         row == NewsRow(id, Item(r), Item(r).hasSubnews, run[r].genreId)
     IN /\ tx' = [tx EXCEPT ![r] =
                    IF UrlTaken(r, row.url) THEN @
                    ELSE Merge(@, [ins |-> @.ins \cup {row}])]
        /\ run' = [run EXCEPT ![r] =
                     Merge(@, AfterTop(@) @@ [uuid |-> id] @@ Wrote(@, "insert", 0))]
  /\ UNCHANGED <<admin, news, links, genre, fecha, now, isFetching, feed, feedChanges>>

\* insertSubnews: SELECT ... FROM news WHERE news_url = ? for a sub-item
SelectSub(r) ==
  /\ run[r].pc = "selSub"
  /\ tx' = [tx EXCEPT ![r] = TakeSnap(@)]
  /\ LET rows == SelectByUrl(r, Sub(r).newsUrl) IN
     IF rows # {}
       THEN run' = [run EXCEPT ![r] =
                      Merge(@, [pc |-> "link", sonId |-> (CHOOSE row \in rows : TRUE).id])]
       ELSE run' = [run EXCEPT ![r].pc = "insSub"]
  /\ UNCHANGED <<admin, news, links, genre, fecha, now, isFetching, feed, feedChanges>>

\* insertSubnews: SELECT UUID(), then INSERT INTO news (has_subnews defaults
\* to false).  A duplicate news_url raises ER_DUP_ENTRY.
InsertSub(r) ==
  /\ run[r].pc = "insSub"
  /\ ~ UrlLocked(r, Sub(r).newsUrl)
  /\ LET id == FreshId
         row == NewsRow(id, Sub(r), FALSE, run[r].genreId)
     IN IF UrlTaken(r, row.url)
          THEN /\ run' = [run EXCEPT ![r] = Merge(@, Thrown("ER_DUP_ENTRY"))]
               /\ UNCHANGED tx
          ELSE /\ tx' = [tx EXCEPT ![r] = Merge(@, [ins |-> @.ins \cup {row}])]
               /\ run' = [run EXCEPT ![r] =
                            Merge(@, [pc |-> "link", sonId |-> id]
                                     @@ Wrote(@, "insert", @.si))]
  /\ UNCHANGED <<admin, news, links, genre, fecha, now, isFetching, feed, feedChanges>>

\* insertSubnews: INSERT INTO news_x_subnews (news_id, subnews_id)
InsertLink(r) ==
  /\ run[r].pc = "link"
  /\ ~ RowLockedX(r, run[r].uuid)
  /\ ~ RowLockedX(r, run[r].sonId)
  /\ LET p == run[r].uuid
         c == run[r].sonId
     IN IF ~ CheckLink(p, c)
          THEN /\ run' = [run EXCEPT ![r] =
                            Merge(@, Thrown("ER_CHECK_CONSTRAINT_VIOLATED"))]
               /\ UNCHANGED tx
          ELSE IF ~ (RowExists(r, p) /\ RowExists(r, c))
            THEN /\ run' = [run EXCEPT ![r] = Merge(@, Thrown("ER_NO_REFERENCED_ROW"))]
                 /\ UNCHANGED tx
            ELSE /\ tx' = [tx EXCEPT ![r] = Merge(@, [lnk |-> @.lnk (+) LinkRow(p, c)])]
                 /\ run' = [run EXCEPT ![r] =
                              Merge(@, AfterLink(@) @@ Wrote(@, "link", @.si))]
  /\ UNCHANGED <<admin, news, links, genre, fecha, now, isFetching, feed, feedChanges>>

\* Variant: the sub-items are counted too.
ProcessedWithSubs(rr) ==
  rr.aux + Len(rr.batch)
  + Cardinality({pos \in (1..Len(rr.batch)) \X (1..MaxSubs) :
                   pos[2] <= Len(rr.batch[pos[1]].subnews)})

\* aux += news.items.length
Processed(rr) == rr.aux + Len(rr.batch)

\* addNewsList: conn.commit(), conn.release(); then aux += news.items.length
Commit(r) ==
  /\ run[r].pc = "commit"
  /\ news' = CommitNews(r)
  /\ links' = CommitLinks(r)
  /\ tx' = [tx EXCEPT ![r] = NoTx]
  /\ run' = [run EXCEPT ![r] =
               Merge(@, [pc |-> "delay", aux |-> Processed(@),
                         hist |-> Append(@.hist, @.batch)] @@ Cleared)]
  /\ UNCHANGED <<admin, genre, fecha, now, isFetching, feed, feedChanges>>

InTx(r) ==
  run[r].pc \in {"selItem", "updItem", "insItem", "selSub", "insSub", "link", "commit"}

\* Any statement on the connection may fail (connection lost, server error).
DbFail(r) ==
  /\ InTx(r)
  /\ run' = [run EXCEPT ![r] = Merge(@, Thrown("storage"))]
  /\ UNCHANGED <<admin, news, links, genre, fecha, now, isFetching, feed, feedChanges, tx>>

Blocked(r) ==
  \/ run[r].pc = "insItem" /\ UrlLocked(r, Item(r).newsUrl)
  \/ run[r].pc = "insSub" /\ UrlLocked(r, Sub(r).newsUrl)
  \/ run[r].pc = "updItem" /\ (RowLockedX(r, run[r].uuid) \/ RowLockedS(r, run[r].uuid))
  \/ run[r].pc = "link" /\ (RowLockedX(r, run[r].uuid) \/ RowLockedX(r, run[r].sonId))

\* A waiting statement ends with ER_LOCK_DEADLOCK or ER_LOCK_WAIT_TIMEOUT.
LockFail(r) ==
  /\ Blocked(r)
  /\ run' = [run EXCEPT ![r] = Merge(@, Thrown("ER_LOCK"))]
  /\ UNCHANGED <<admin, news, links, genre, fecha, now, isFetching, feed, feedChanges, tx>>

\* addNewsList: catch { await conn.rollback(); throw } finally { conn.release() },
\* then the caller's catch.
Rollback(r) ==
  /\ run[r].pc = "rollback"
  /\ news' = RollbackNews(r)
  /\ links' = RollbackLinks(r)
  /\ tx' = [tx EXCEPT ![r] = NoTx]
  /\ run' = [run EXCEPT ![r] =
               Merge(@, [pc |-> "done", res |-> Result(@.kind, "error", @.err, 0),
                         told |-> Told(@, "error", @.err)]
                        @@ Cleared)]
  /\ isFetching' = IF run[r].kind = "tryFetch" THEN FALSE ELSE isFetching
  /\ UNCHANGED <<admin, genre, fecha, now, feed, feedChanges>>

\* await delay(1000), then the next category or the end of the loop
Delay(r) ==
  /\ run[r].pc = "delay"
  /\ run' = [run EXCEPT ![r] =
               IF @.ci + 1 > Len(Categories)
                 THEN Merge(@, [pc |-> "update", ci |-> @.ci + 1])
                 ELSE Merge(@, [pc |-> "fetch", ci |-> @.ci + 1])]
  /\ UNCHANGED <<admin, news, links, genre, fecha, now, isFetching, feed, feedChanges, tx>>

\* Variant: CURDATE() in place of NOW().
UpdatedFechaDateOnly(r) == now - (now % TicksPerDay)

\* The checkpoint after UPDATE last_pull SET fecha = NOW() WHERE id = 1
UpdatedFecha(r) == now

\* NewsModel.updateFetchDate, then the end of fetchNews / fetchApi
UpdateFetchDate(r) ==
  /\ run[r].pc = "update"
  /\ IF fecha = NoRow
       THEN /\ EndRun(r, "error", "norow", 0)
            /\ UNCHANGED fecha
       ELSE /\ fecha' = UpdatedFecha(r)
            /\ EndRun(r, "ok", "none", run[r].aux)
  /\ UNCHANGED <<admin, news, links, genre, now, feed, feedChanges, tx>>

\* The UPDATE statement itself fails.
UpdateFetchDateFails(r) ==
  /\ run[r].pc = "update"
  /\ EndRun(r, "error", "storage", 0)
  /\ UNCHANGED <<admin, news, links, genre, fecha, now, feed, feedChanges, tx>>

-----------------------------------------------------------------------------
(* Environment *)

\* Time passes.
Tick ==
  /\ now < MaxDays * TicksPerDay
  /\ now' = now + 1
  /\ UNCHANGED <<admin, news, links, genre, fecha, isFetching, feed, feedChanges, run, tx>>

\* The provider publishes other content for one category, between two runs.
ProviderChange ==
  /\ feedChanges < MaxFeedChanges
  /\ \A r \in Runs : ~ InFlight(r)
  /\ \E r \in Runs : run[r].pc = "done"
  /\ \E c \in 1..Len(Categories), b \in PlainImput :
       /\ b # feed[c]
       /\ feed' = [feed EXCEPT ![c] = b]
  /\ feedChanges' = feedChanges + 1
  /\ UNCHANGED <<admin, news, links, genre, fecha, now, isFetching, run, tx>>

-----------------------------------------------------------------------------
(* Administrative operations on the articles: changeStatus and clean *)

\* A statement of the pool waits while an open transaction holds a lock on
\* the row.
RowFree(id) == ~ RowLockedX(0, id) /\ ~ RowLockedS(0, id)

Answered(op, http, n) == [ops |-> admin.ops + 1, op |-> op, http |-> http, n |-> n]

\* UPDATE news SET is_active = (NOT is_active) WHERE id = UUID_TO_BIN(?)
Toggled(id) ==
  {IF row.id = id THEN [row EXCEPT !.active = ~ row.active] ELSE row : row \in news}

\* NewsController.changeStatus -> NewsModel.setStatus; id 0 is the id of no row.
SetStatus(id) ==
  /\ admin.ops < MaxAdminOps
  /\ RowFree(id)
  /\ news' = Toggled(id)
  /\ admin' = Answered("changeStatus", IF news' = news THEN 404 ELSE 200, 0)
  /\ UNCHANGED <<links, genre, fecha, now, isFetching, feed, feedChanges, run, tx>>

\* WHERE is_active = false
Inactive == {row.id : row \in {x \in news : ~ x.active}}

\* The rows of one DELETE statement are deleted one after the other, in the
\* order of the index scan (the binary ids, generated by UUID()).
DeleteOrders(V) ==
  {f \in [1..Cardinality(V) -> V] : \A i, j \in DOMAIN f : f[i] = f[j] => i = j}

\* FOREIGN KEY (news_id) REFERENCES news(id) ON DELETE CASCADE: deleting a row
\* deletes the link rows it is the parent of.
\* FOREIGN KEY (subnews_id) REFERENCES news(id): no ON DELETE clause, deleting
\* a row that a remaining link row has as child is refused.
Refused(f, k) ==
  \E l \in BagToSet(links) : l[2] = f[k] /\ l[1] \notin {f[j] : j \in 1..(k - 1)}

Cascaded(V) == [l \in {x \in BagToSet(links) : x[1] \notin V} |-> links[l]]

\* NewsController.clean -> NewsModel.clean: DELETE FROM news WHERE is_active =
\* false, one statement in autocommit mode: all of it or, when a row is
\* refused (ER_ROW_IS_REFERENCED_2), nothing.
Clean ==
  /\ admin.ops < MaxAdminOps
  /\ \A v \in Inactive : RowFree(v)
  /\ \E f \in DeleteOrders(Inactive) :
       IF \E k \in DOMAIN f : Refused(f, k)
         THEN /\ admin' = Answered("clean", 500, 0)
              /\ UNCHANGED <<news, links>>
         ELSE /\ news' = {row \in news : row.id \notin Inactive}
              /\ links' = Cascaded(Inactive)
              /\ admin' = Answered("clean", 200, Cardinality(Inactive))
  /\ UNCHANGED <<genre, fecha, now, isFetching, feed, feedChanges, run, tx>>

\* The steps of one trigger invocation, whatever the trigger.
RunStep(r) ==
  \/ ApiData(r)
  \/ ApiDataFails(r)
  \/ SaveUrlImage(r)
  \/ Begin(r)
  \/ GenreSelect(r)
  \/ Commit(r)
  \/ DbFail(r)
  \/ Rollback(r)
  \/ Delay(r)
  \/ UpdateFetchDate(r)
  \/ UpdateFetchDateFails(r)

\* The statements of addNewsList for the items of a batch.
ItemStep(r) ==
  \/ SelectItem(r)
  \/ UpdateItem(r)
  \/ InsertNewsItem(r)
  \/ SelectSub(r)
  \/ InsertSub(r)
  \/ InsertLink(r)

\* Both triggers, concurrent invocations, a fixed provider content.
Next ==
  \E r \in Runs :
    \/ TryFetch(r)
    \/ FetchApi(r)
    \/ CheckFetchDate(r)
    \/ RunStep(r)
    \/ ItemStep(r)
    \/ LockFail(r)

Spec == Init /\ [][Next]_vars

\* The flag-guarded trigger alone (runs follow one another), the provider
\* changing its content between two runs.
NextFeed ==
  \/ \E r \in Runs :
       \/ TryFetch(r)
       \/ RunStep(r)
       \/ ItemStep(r)
  \/ ProviderChange

SpecFeed == Init /\ [][NextFeed]_vars

\* The checkpoint row missing or written at time 0, the provider serving
\* empty batches, time passing.
InitCooldown ==
  /\ Fresh
  /\ genre = SeededGenre
  /\ fecha \in {NoRow, 0}
  /\ now = 0
  /\ feed = [c \in 1..Len(Categories) |-> <<>>]

NextCooldown ==
  \/ \E r \in Runs :
       \/ TryFetch(r)
       \/ FetchApi(r)
       \/ CheckFetchDate(r)
       \/ RunStep(r)
  \/ Tick

SpecCooldown == InitCooldown /\ [][NextCooldown]_vars

\* Every await of the code settles: a run that can take a step (the answer of
\* the provider, of the database, of the timer, or the failure of a waiting
\* statement) eventually takes one.
Fairness ==
  \A r \in Runs : WF_vars(CheckFetchDate(r) \/ RunStep(r) \/ ItemStep(r) \/ LockFail(r))

\* As Init, the provider having nothing to serve for the last category.
InitLive == Init /\ feed[Len(Categories)] = <<>>

SpecLive == InitLive /\ [][Next]_vars /\ Fairness

\* The flag-guarded trigger and the administrator's requests.
NextAdmin ==
  \/ \E r \in Runs :
       \/ TryFetch(r)
       \/ RunStep(r)
       \/ ItemStep(r)
  \/ \E id \in {0} \cup {row.id : row \in news} : SetStatus(id)
  \/ Clean

SpecAdmin == InitLive /\ [][NextAdmin]_vars

\* Some of the genre rows were never seeded; both triggers, the provider
\* serving empty batches.
InitGenre ==
  /\ Fresh
  /\ genre \in SUBSET {g \in SeededGenre : \E c \in 1..Len(Categories) : g.name = Categories[c]}
  /\ fecha = 0
  /\ now = CooldownDays * TicksPerDay
  /\ feed = [c \in 1..Len(Categories) |-> <<>>]

NextGenre ==
  \E r \in Runs :
    \/ TryFetch(r)
    \/ FetchApi(r)
    \/ CheckFetchDate(r)
    \/ RunStep(r)
    \/ GenreInsert(r)

SpecGenre == InitGenre /\ [][NextGenre]_vars

\* The provider serves up to MaxOrderItems items with up to MaxOrderSubs
\* sub-items each for the first category, and single items for the others;
\* the flag-guarded trigger alone.
OrderSub == [newsUrl : 1..MaxUrl, thumbnail : {"absent"}, image_url : {NoImage}]

OrderItem ==
  [newsUrl : 1..MaxTopUrl, hasSubnews : {FALSE}, subPresent : {FALSE}, subnews : {<<>>},
   thumbnail : {"absent"}, image_url : {NoImage}]
  \cup
  [newsUrl : 1..MaxTopUrl, hasSubnews : {TRUE}, subPresent : {TRUE},
   subnews : SeqsUpTo(OrderSub, MaxOrderSubs),
   thumbnail : {"absent"}, image_url : {NoImage}]

InitOrder ==
  /\ Fresh
  /\ genre = SeededGenre
  /\ fecha = 0
  /\ now = CooldownDays * TicksPerDay
  /\ feed \in [1..Len(Categories) -> SeqsUpTo(OrderItem, MaxOrderItems)]
  /\ \A c \in 2..Len(Categories) :
       Len(feed[c]) <= 1 /\ \A j \in 1..Len(feed[c]) : ~ feed[c][j].hasSubnews

NextOrder ==
  \E r \in Runs :
    \/ TryFetch(r)
    \/ RunStep(r)
    \/ ItemStep(r)

SpecOrder == InitOrder /\ [][NextOrder]_vars

\* The provider serves, for every category, an item with or without a
\* thumbnail and, but for the first category, with or without a sub-item; the
\* flag-guarded trigger and the administrator's changeStatus.
ReItem ==
  {i \in NewsItem :
     /\ i.thumbnail \in {"absent", "url"}
     /\ i.hasSubnews => i.subPresent
     /\ \A k \in 1..Len(i.subnews) : i.subnews[k].thumbnail = "absent"}

InitReingest ==
  /\ Fresh
  /\ genre = SeededGenre
  /\ fecha = 0
  /\ now = CooldownDays * TicksPerDay
  /\ feed \in [1..Len(Categories) -> SeqsUpTo(ReItem, MaxItems)]
  /\ \A j \in 1..Len(feed[1]) : ~ feed[1][j].hasSubnews

NextReingest ==
  \/ \E r \in Runs :
       \/ TryFetch(r)
       \/ RunStep(r)
       \/ ItemStep(r)
  \/ \E id \in {0} \cup {row.id : row \in news} : SetStatus(id)

SpecReingest == InitReingest /\ [][NextReingest]_vars

\* The provider serves items with thumbnails for the first category and
\* nothing for the others; the flag-guarded trigger alone.
InitImage ==
  /\ Fresh
  /\ genre = SeededGenre
  /\ fecha = 0
  /\ now = CooldownDays * TicksPerDay
  /\ feed \in [1..Len(Categories) -> NewsImput]
  /\ \A c \in 2..Len(Categories) : feed[c] = <<>>

NextImage ==
  \E r \in Runs :
    \/ TryFetch(r)
    \/ RunStep(r)
    \/ ItemStep(r)

SpecImage == InitImage /\ [][NextImage]_vars

-----------------------------------------------------------------------------
(* Properties *)

IsPrefix(s, t) == Len(s) <= Len(t) /\ SubSeq(t, 1, Len(s)) = s

RowsOfUrl(u) == {row \in news : row.url = u}

\* C1: idempotence of ingestion.  A run that starts after a fully successful
\* run and gets the same payload for every category it has ingested so far
\* leaves the table news as it is with every step it takes: the rows, and
\* hence their count, after the second run are those after the first.
C1_Idempotent ==
  [][\A r \in Runs : \A q \in run[r].after :
       (/\ run'[r] # run[r]
        /\ run[q].res.status = "ok"
        /\ IsPrefix(run'[r].hist, run[q].hist))
       => news' = news]_vars

\* A second run has gone through the whole payload of a first one, which
\* stored a parent and its sub-item.
C1_Witness ==
  \E r \in Runs : \E q \in run[r].after :
    /\ run[q].res.status = "ok"
    /\ run[r].res.status = "ok"
    /\ run[r].hist = run[q].hist
    /\ \E k \in 1..Len(run[r].hist) :
         /\ Len(run[r].hist[k]) > 0
         /\ run[r].hist[k][1].hasSubnews
         /\ Len(run[r].hist[k][1].subnews) > 0
    /\ Cardinality(news) >= 2

\* C2: in every reachable state no two rows of news have the same news_url,
\* whatever the interleaving of the runs.
C2_UniqueUrl == \A a, b \in news : a.url = b.url => a = b

\* A run is about to insert an article its snapshot did not show, while
\* another run has committed a row with that url.
C2_Witness ==
  \E r \in Runs :
    /\ run[r].pc = "insItem"
    /\ \E row \in news : row.url = Item(r).newsUrl

\* C3: after addNewsList commits a batch, every top-level item of the batch
\* with hasSubnews = true has a row of news_x_subnews whose parent is the
\* article with the item's url, also when its sub-item list is empty.
C3_ParentHasLink ==
  [][\A r \in Runs :
       (run[r].pc = "commit" /\ run'[r].pc = "delay")
       => \A j \in 1..Len(run[r].batch) :
            run[r].batch[j].hasSubnews
            => \E row \in news' :
                 /\ row.url = run[r].batch[j].newsUrl
                 /\ \E l \in BagToSet(links') : l[1] = row.id]_vars

\* The occurrences of url u as a sub-item in the committed batches:
\* <<run, category, item, sub-item>>.
SubOcc(u) ==
  {o \in Runs \X (1..Len(Categories)) \X (1..MaxItems) \X (1..MaxSubs) :
     /\ o[2] <= Len(run[o[1]].hist)
     /\ o[3] <= Len(run[o[1]].hist[o[2]])
     /\ o[4] <= Len(run[o[1]].hist[o[2]][o[3]].subnews)
     /\ run[o[1]].hist[o[2]][o[3]].subnews[o[4]].newsUrl = u}

ParentUrl(o) == run[o[1]].hist[o[2]][o[3]].newsUrl

C5_Coalesced == Cardinality({r \in Runs : InFlight(r)}) <= 1

\* C6: a fetchApi call d days after the checkpoint, 0 <= d < 10, ends with
\* the cooldown error, and its count n of remaining days is the least whole
\* number not below 10 - d; it is 7 for d = 3.
C6_DaysRemaining ==
  [][\A r \in Runs :
       (/\ run[r].pc = "check"
        /\ run'[r].pc # "check"
        /\ fecha # NoRow
        /\ 0 <= now - fecha
        /\ now - fecha < CooldownDays * TicksPerDay)
       => LET d == now - fecha
              n == run'[r].res.n
          IN /\ run'[r].pc = "done"
             /\ run'[r].res.err = "cooldown"
             /\ n * TicksPerDay >= CooldownDays * TicksPerDay - d
             /\ (n - 1) * TicksPerDay < CooldownDays * TicksPerDay - d
             /\ (d = 3 * TicksPerDay => n = 7)]_vars

\* A call made 3 days after the checkpoint was rejected with 7 days remaining.
C6_Witness ==
  \E r \in Runs :
    /\ run[r].res.err = "cooldown"
    /\ run[r].res.n = 7
    /\ fecha # NoRow
    /\ now - fecha = 3 * TicksPerDay

\* The articles and links of a batch are stored.
BatchStored(b) ==
  \A j \in 1..Len(b) :
    /\ RowsOfUrl(b[j].newsUrl) # {}
    /\ \A k \in 1..Len(b[j].subnews) :
         \E p \in RowsOfUrl(b[j].newsUrl), c \in RowsOfUrl(b[j].subnews[k].newsUrl) :
           BagIn(<<p.id, c.id>>, links)

\* C7: when a run has ended in failure, the articles and links of the
\* categories it committed before the failing one are still stored.
C7_FailureIsolated ==
  \A r \in Runs :
    (run[r].pc = "done" /\ run[r].res.status = "error")
    => \A k \in 1..Len(run[r].hist) : BatchStored(run[r].hist[k])

\* A run failed in a later category after committing a parent with a
\* sub-item in an earlier one.
C7_Witness ==
  \E r \in Runs :
    /\ run[r].pc = "done"
    /\ run[r].res.status = "error"
    /\ Len(run[r].hist) >= 1
    /\ Len(run[r].hist[1]) > 0
    /\ Len(run[r].hist[1][1].subnews) > 0

\* C8: a failing statement of addNewsList ends the call with the error handed
\* to the caller and with news and news_x_subnews as they were: no step of
\* the call before its commit changes the stored rows, and none of its
\* pending rows is stored after the rollback.
C8_CategoryAtomic ==
  [][\A r \in Runs :
       /\ (tx[r].open /\ run'[r] # run[r] /\ run'[r].pc # "delay")
          => (news' = news /\ links' = links)
       /\ (run[r].pc = "rollback" /\ run'[r].pc = "done")
          => /\ run'[r].res.status = "error"
             /\ run'[r].res.err = run[r].err
             /\ tx'[r] = NoTx
             /\ \A row \in tx[r].ins : row \notin news']_vars

\* A call failed on the link of a sub-item after its article was inserted,
\* and nothing of it is stored.
C8_Witness ==
  \E r \in Runs :
    /\ run[r].pc = "done"
    /\ run[r].res.err = "ER_CHECK_CONSTRAINT_VIOLATED"
    /\ run[r].hist = <<>>
    /\ news = {}
    /\ links = EmptyBag

\* C9: a run that loses the race on the unique news_url does not fail its
\* category and goes on with the id of the existing row: no call ends with a
\* duplicate-key error, and the ids it writes a link row with are ids of rows.
C9_RaceRecovered ==
  \A r \in Runs :
    /\ run[r].err # "ER_DUP_ENTRY"
    /\ run[r].pc = "link" => (RowExists(r, run[r].uuid) /\ RowExists(r, run[r].sonId))

\* C10: the checkpoint changes only in the last step of a run that has
\* committed every category, which sets it to the current time and ends the
\* run with success; a run that ends in failure or is rejected by the
\* cooldown leaves it as it is.
C10_Checkpoint ==
  [][/\ fecha' # fecha
        => \E r \in Runs :
             /\ run[r].pc = "update"
             /\ Len(run[r].hist) = Len(Categories)
             /\ run'[r].res.status = "ok"
     /\ \A r \in Runs :
          /\ (run[r].res.status # "ok" /\ run'[r].res.status = "ok")
             => (fecha' = now /\ Len(run[r].hist) = Len(Categories))
          /\ (run[r].res.status # "error" /\ run'[r].res.status = "error")
             => fecha' = fecha]_vars

\* A run has ended with success at a time that is not a whole day, and the
\* checkpoint holds that time.
C10_Witness ==
  \E r \in Runs :
    /\ run[r].res.status = "ok"
    /\ fecha = now
    /\ now % TicksPerDay # 0

\* C11: every run started through tryFetch ends, whatever its outcome, and
\* with its end isFetching is false again; a tryFetch issued while no run
\* started through tryFetch is in progress starts a new run.
C11_FlagReset ==
  /\ \A r \in Runs :
       (run[r].kind = "tryFetch" /\ InFlight(r)) ~> (run[r].pc = "done" /\ ~ isFetching)
  /\ [][\A r \in Runs :
          (/\ IsNextCall(r)
           /\ run'[r].kind = "tryFetch"
           /\ \A q \in Runs : ~ (run[q].kind = "tryFetch" /\ InFlight(q)))
          => (run'[r].pc = "fetch" /\ isFetching')]_vars

\* A tryFetch run has failed, the flag is down, and a later tryFetch has
\* started a run.
C11_Witness ==
  \E q, r \in Runs :
    /\ run[q].kind = "tryFetch"
    /\ run[q].pc = "done"
    /\ run[q].res.status = "error"
    /\ run[r].kind = "tryFetch"
    /\ q \in run[r].after
    /\ InFlight(r)

\* C12 as stated: on every trigger path, a run that begins while the
\* cooldown is active does no work: no provider fetch, no thumbnail
\* resolution, no call of addNewsList, no checkpoint update.
C12_NoWorkInCooldown ==
  \A r \in Runs : run[r].cool => run[r].work = {}

\* C12, amended: a fetchApi call whose checkFetchDate finds the cooldown
\* active ends in that step with the cooldown error, having done no work and
\* leaving every table as it is; tryFetch does not check the cooldown.
C12_FetchApiRejected ==
  /\ [](\A r \in Runs :
         (run[r].kind = "fetchApi" /\ run[r].cool)
         => (run[r].pc = "done" /\ run[r].res.err = "cooldown" /\ run[r].work = {}
             /\ run[r].reqs = 0 /\ run[r].hist = <<>>))
  /\ [][\A r \in Runs :
          (run[r].pc = "check" /\ run'[r].pc # "check" /\ InCooldown)
          => (/\ run'[r].pc = "done"
              /\ run'[r].res.err = "cooldown"
              /\ <<news, links, genre, fecha>>' = <<news, links, genre, fecha>>)]_vars

\* A fetchApi call was rejected by the cooldown that a successful run had
\* started.
C12_Witness ==
  \E q, r \in Runs :
    /\ run[q].res.status = "ok"
    /\ run[r].kind = "fetchApi"
    /\ run[r].cool
    /\ run[r].pc = "done"
    /\ run[r].res.err = "cooldown"

\* C13: resolveImageUrl raises for no thumbnail and no outcome of its
\* request, and gives null when there is no usable thumbnail or the request
\* fails or ends at no address; saveUrlImage therefore always completes, and
\* the batch goes on to addNewsList with the same items, each with a null
\* image_url or the address the redirects ended at.
C13_ResolutionNeverAborts ==
  /\ [](\A url \in Thumbnail \cup {"notString"} : \A o \in Outcomes :
         LET res == ResolveImageUrl(url, o) IN
         /\ ~ res.raised
         /\ res.value \in {NoImage, "final"}
         /\ (url # "url" \/ o = Unreachable) => res.value = NoImage
         /\ o.final \in {"none", "blank"} => res.value = NoImage)
  /\ [](\A r \in Runs : run[r].res.err # "resolve")
  /\ [][\A r \in Runs :
          (run[r].pc = "resolve" /\ run'[r] # run[r])
          => /\ run'[r].pc = "begin"
             /\ Len(run'[r].batch) = Len(run[r].batch)
             /\ \A j \in 1..Len(run[r].batch) :
                  LET old == run[r].batch[j]
                      new == run'[r].batch[j]
                  IN /\ [new EXCEPT !.image_url = NoImage, !.subnews = <<>>]
                          = [old EXCEPT !.subnews = <<>>]
                     /\ new.image_url \in {NoImage, "final"}
                     /\ old.thumbnail # "url" => new.image_url = NoImage
                     /\ Len(new.subnews) = Len(old.subnews)
                     /\ \A k \in 1..Len(old.subnews) :
                          /\ [new.subnews[k] EXCEPT !.image_url = NoImage] = old.subnews[k]
                          /\ old.subnews[k].thumbnail # "url"
                               => new.subnews[k].image_url = NoImage]_vars

\* A batch is being stored whose item has a thumbnail that did not resolve
\* and whose sub-item has one that did.
C13_Witness ==
  \E r \in Runs :
    /\ run[r].pc = "commit"
    /\ Len(run[r].batch) > 0
    /\ run[r].batch[1].thumbnail = "url"
    /\ run[r].batch[1].image_url = NoImage
    /\ Len(run[r].batch[1].subnews) > 0
    /\ run[r].batch[1].subnews[1].thumbnail = "url"
    /\ run[r].batch[1].subnews[1].image_url = "final"

\* C14: when the provider's answer for a category is not a 200 or fails the
\* validation, apiData throws after the one request it made for the category:
\* the run ends there with that error, nothing asks the provider again, and
\* neither the step nor anything after it writes news, news_x_subnews or the
\* checkpoint for that category.
C14_ApiErrorFatal ==
  /\ [][\A r \in Runs :
          /\ (run[r].pc = "fetch" /\ run'[r] # run[r] /\ run'[r].pc # "resolve")
             => /\ run'[r].pc = "done"
                /\ run'[r].res.status = "error"
                /\ run'[r].res.err \in ApiErrors
                /\ run'[r].reqs = run[r].reqs + 1
                /\ run'[r].hist = run[r].hist
                /\ <<news, links, fecha>>' = <<news, links, fecha>>
          /\ run[r].pc = "done" => run'[r] = run[r]]_vars
  /\ [](\A r \in Runs :
         (run[r].pc = "done" /\ run[r].res.err \in ApiErrors)
         => /\ run[r].reqs = Len(run[r].hist) + 1
            /\ Len(run[r].hist) < Len(Categories)
            /\ "checkpoint" \notin run[r].work
            /\ tx[r] = NoTx)

\* A run ended on a payload that failed the validation, in its second
\* category, after two requests.
C14_Witness ==
  \E r \in Runs :
    /\ run[r].pc = "done"
    /\ run[r].res.err = "validation"
    /\ Len(run[r].hist) = 1
    /\ run[r].reqs = 2

\* C15: on every trigger path, a run that failed in a category has handed
\* its invoker an error that names that category and tells the kind of cause
\* (provider, validation or storage).
C15_ErrorReported ==
  \A r \in Runs :
    (/\ run[r].pc = "done"
     /\ run[r].res.status = "error"
     /\ "fetch" \in run[r].work
     /\ run[r].ci <= Len(Categories))
    => /\ run[r].told.status = "error"
       /\ run[r].told.cat = run[r].ci
       /\ run[r].told.cause \in {"provider", "validation", "storage"}
       /\ run[r].told.cause = Cause(run[r].res.err)

RECURSIVE SumLen(_)
SumLen(h) == IF h = <<>> THEN 0 ELSE Len(Head(h)) + SumLen(Tail(h))

\* C16: a fetchApi call is answered exactly once, in the step that ends its
\* run and not before: with 200 and the number of top-level items of all the
\* categories' batches after every category was stored, or with 500; the
\* answer once given never changes.
C16_OneFinalResult ==
  /\ [](\A r \in Runs :
         run[r].kind = "fetchApi"
         => /\ (run[r].told # NoTold) <=> (run[r].pc = "done")
            /\ run[r].pc = "done" => run[r].told.status \in {"ok", "error"}
            /\ run[r].told.status = "ok"
                 => /\ run[r].res.http = 200
                    /\ Len(run[r].hist) = Len(Categories)
                    /\ run[r].res.n = SumLen(run[r].hist)
            /\ run[r].told.status = "error"
                 => (run[r].res.http = 500 /\ run[r].res.status = "error"))
  /\ [][\A r \in Runs :
          run[r].told # NoTold => (run'[r].told = run[r].told /\ run'[r].res = run[r].res)]_vars

\* A fetchApi call was answered with success and a count of two items, a
\* parent with a sub-item among them.
C16_Witness ==
  \E r \in Runs :
    /\ run[r].kind = "fetchApi"
    /\ run[r].told.status = "ok"
    /\ run[r].res.n = 2
    /\ \E k \in 1..Len(run[r].hist) :
         Len(run[r].hist[k]) > 0 /\ Len(run[r].hist[k][1].subnews) > 0

\* C18: no row of news_x_subnews, stored or pending in a transaction, has the
\* same article as parent and as child, also when an item lists its own url
\* among its sub-items.
C18_NoSelfLink ==
  /\ \A l \in BagToSet(links) : l[1] # l[2]
  /\ \A r \in Runs : \A l \in BagToSet(tx[r].lnk) : l[1] # l[2]

\* An item that lists its own url among its sub-items was ingested: the link
\* was refused and the call has ended.
C18_Witness ==
  \E r \in Runs :
    /\ run[r].pc = "done"
    /\ run[r].res.err = "ER_CHECK_CONSTRAINT_VIOLATED"
    /\ Len(feed[run[r].ci]) > 0
    /\ Len(feed[run[r].ci][1].subnews) > 0
    /\ feed[run[r].ci][1].subnews[1].newsUrl = feed[run[r].ci][1].newsUrl

\* C17: no step of an ingestion run, successful or failing, removes a row of
\* news or changes its is_active (or its news_url): every row stored before
\* the step is stored after it.
C17_NeverDestroys ==
  [][\A r \in Runs :
       run'[r] # run[r]
       => \A row \in news :
            \E kept \in news' :
              /\ kept.id = row.id
              /\ kept.url = row.url
              /\ kept.active = row.active]_vars

\* A run is about to commit its update of an article that the administrator
\* has deactivated.
C17_Witness ==
  \E r \in Runs :
    /\ run[r].pc = "commit"
    /\ \E row \in news : ~ row.active /\ row.id \in tx[r].upd

\* C20: link rows go only with the deletion of one of their articles: clean
\* succeeds and leaves no inactive article and no link row of one, as parent
\* or as child; every link row refers to stored articles; nothing else
\* removes a link row.
C20_CascadeDelete ==
  /\ [](\A l \in BagToSet(links) :
          \E p, c \in news : p.id = l[1] /\ c.id = l[2])
  /\ [](admin.op = "clean" => admin.http = 200)
  /\ [][admin'.ops # admin.ops /\ admin'.op = "clean"
          => /\ \A row \in news' : row.active
             /\ \A l \in BagToSet(links') : l[1] \notin Inactive /\ l[2] \notin Inactive]_vars
  /\ [][\A l \in BagToSet(links) :
          CopiesIn(l, links') < CopiesIn(l, links)
          => /\ admin'.ops # admin.ops
             /\ admin'.op = "clean"
             /\ (l[1] \in Inactive \/ l[2] \in Inactive)]_vars

\* C19: the table genre never holds two rows with the same name, a row is
\* created only for a name that has none, and every call of
\* getOrCreateGenreId(category) returns the id of the row with that name,
\* also when two calls resolve the same absent category at the same time.
C19_GenreReused ==
  /\ [](\A a, b \in genre : a.name = b.name => a = b)
  /\ [][\A g \in genre' \ genre : \A old \in genre : old.name # g.name]_vars
  /\ [][\A r \in Runs :
          (/\ run[r].pc \in {"genre", "genreIns"}
           /\ run'[r].pc \notin {"genre", "genreIns"})
          => /\ run'[r].pc # "rollback"
             /\ \E g \in genre' :
                  g.name = Categories[run[r].ci] /\ g.id = run'[r].genreId]_vars

\* The positions of a run inside addNewsList, between beginTransaction and
\* the end of commit or rollback.
Storing(r) ==
  run[r].pc \in {"genre", "genreIns", "selItem", "updItem", "insItem", "selSub",
                 "insSub", "link", "commit", "rollback"}

Precedes(x, y) ==
  \/ x[2] < y[2]
  \/ x[2] = y[2] /\ x[3] < y[3]
  \/ x[2] = y[2] /\ x[3] = y[3] /\ x[1] = "insert" /\ y[1] = "link"

\* C22: a run takes the categories one after the other in the order of the
\* enumeration: it fetches category k + 1 only from the delay after the
\* commit of category k, the batches it has stored are those of the first
\* categories in that order, and the rows of a batch get the genre of its
\* category; within a batch the writes follow the order of the payload, item
\* by item and, within an item, sub-item by sub-item, none left out.
C22_InOrder ==
  /\ [](\A r \in Runs :
         /\ \A k \in 1..Len(run[r].hist) : run[r].hist[k] = feed[k]
         /\ InFlight(r) =>
              Len(run[r].hist) = (IF run[r].pc = "delay" THEN run[r].ci ELSE run[r].ci - 1)
         /\ run[r].pc = "update" => run[r].ci = Len(Categories) + 1
         /\ \A a, b \in 1..Len(run[r].log) :
              a < b => Precedes(run[r].log[a], run[r].log[b]))
  /\ [][\A r \in Runs :
          /\ (run'[r].pc = "fetch" /\ run[r].pc \notin {"fetch", "idle"})
             => /\ run[r].pc = "delay"
                /\ run'[r].ci = run[r].ci + 1
                /\ Len(run[r].hist) = run[r].ci
                /\ ~ tx[r].open
          /\ (run[r].pc = "commit" /\ run'[r].pc = "delay")
             => /\ \A row \in tx[r].ins :
                     \E g \in genre :
                       g.id = row.genre /\ g.name = CategoryEnum[run[r].ci]
                /\ \A j \in 1..Len(run[r].batch) :
                     /\ run[r].batch[j].hasSubnews
                          => \E e \in 1..Len(run[r].log) :
                               run[r].log[e][2] = j /\ run[r].log[e][3] = 0
                     /\ \A k \in 1..Len(run[r].batch[j].subnews) :
                          \E e \in 1..Len(run[r].log) :
                            run[r].log[e] = <<"link", j, k>>]_vars

\* A run has stored every category, the first with two items of which the
\* first has two sub-items.
C22_Witness ==
  \E r \in Runs :
    /\ run[r].res.status = "ok"
    /\ Len(run[r].hist) = Len(Categories)
    /\ Len(run[r].hist[1]) = 2
    /\ Len(run[r].hist[1][1].subnews) = 2
    /\ Len(run[r].hist[Len(Categories)]) = 1

\* The occurrences of url s as a sub-item of an item with url p in the
\* committed batches.
PairOcc(p, s) == {o \in SubOcc(s) : ParentUrl(o) = p}

\* C23: the insertion of a link row is not conditional on the pair.  Each
\* commit of a batch adds one row (P, S) per place of the batch where parent P
\* lists sub-item S, whatever rows are stored already; hence the number of
\* rows for a pair is the number of such places in all the batches committed
\* so far, n after n successful runs with a payload that names the pair once.
C23_LinkPerIngestion ==
  /\ [](\A p \in 1..MaxTopUrl, s \in 1..MaxUrl :
         /\ PairOcc(p, s) # {} => (RowsOfUrl(p) # {} /\ RowsOfUrl(s) # {})
         /\ \A a \in RowsOfUrl(p), b \in RowsOfUrl(s) :
              CopiesIn(<<a.id, b.id>>, links) = Cardinality(PairOcc(p, s)))
  /\ [][\A r \in Runs :
          (run[r].pc = "commit" /\ run'[r].pc = "delay")
          => \A l \in BagToSet(tx[r].lnk) :
               CopiesIn(l, links') = CopiesIn(l, links) + CopiesIn(l, tx[r].lnk)]_vars

\* Two runs have succeeded with the same payload, which names a pair in one
\* place, and the pair has two link rows.
C23_Witness ==
  \E q, r \in Runs : \E p \in 1..MaxTopUrl, s \in 1..MaxUrl :
    /\ q # r
    /\ run[q].res.status = "ok"
    /\ run[r].res.status = "ok"
    /\ run[q].hist = run[r].hist
    /\ Cardinality(PairOcc(p, s)) = 2
    /\ \E a \in RowsOfUrl(p), b \in RowsOfUrl(s) : CopiesIn(<<a.id, b.id>>, links) = 2

\* The article of item j of the batch of run r was there before the item was
\* processed: a row its transaction reads, or the row of an earlier item or
\* sub-item of the batch.
Known(r, j) ==
  LET u == run[r].batch[j].newsUrl IN
  \/ \E row \in tx[r].snap : row.url = u
  \/ \E i \in 1..(j - 1) :
       \/ run[r].batch[i].newsUrl = u
       \/ \E k \in 1..Len(run[r].batch[i].subnews) : run[r].batch[i].subnews[k].newsUrl = u

\* C24: the lookup of a top-level item that finds a row hands on the id of
\* that row, the update of has_subnews being next when the item declares
\* hasSubnews = true; and when a batch commits, the row of every such item
\* whose url had a row (for instance one stored as a sub-item) keeps its id,
\* has has_subnews = true and is the parent in the link rows of the item's
\* sub-items.
C24_ExistingParent ==
  /\ [][\A r \in Runs :
          (run[r].pc = "selItem" /\ run'[r].pc # "selItem" /\ run'[r].pc # "rollback")
          => \A row \in Visible(r) :
               row.url = Item(r).newsUrl
               => /\ run'[r].uuid = row.id
                  /\ Item(r).hasSubnews => run'[r].pc = "updItem"]_vars
  /\ [][\A r \in Runs :
          (run[r].pc = "commit" /\ run'[r].pc = "delay")
          => \A j \in 1..Len(run[r].batch) :
               (run[r].batch[j].hasSubnews /\ Known(r, j))
               => \E row \in news' :
                    /\ row.url = run[r].batch[j].newsUrl
                    /\ row.hasSub
                    /\ \A old \in tx[r].snap : old.url = row.url => old.id = row.id
                    /\ \A k \in 1..Len(run[r].batch[j].subnews) :
                         \E c \in news' :
                           /\ c.url = run[r].batch[j].subnews[k].newsUrl
                           /\ BagIn(<<row.id, c.id>>, tx[r].lnk)]_vars

\* Url 2 was stored as a sub-item by the first category of a run, then came
\* as a top-level item with a sub-item in the second: its row has
\* has_subnews = true and is the parent of a link row.
C24_Witness ==
  \E r \in Runs : \E row \in RowsOfUrl(2) :
    /\ Len(run[r].hist) = 2
    /\ Len(run[r].hist[1]) = 1
    /\ run[r].hist[1][1].newsUrl = 1
    /\ Len(run[r].hist[1][1].subnews) = 1
    /\ run[r].hist[1][1].subnews[1].newsUrl = 2
    /\ Len(run[r].hist[2]) = 1
    /\ run[r].hist[2][1].newsUrl = 2
    /\ run[r].hist[2][1].hasSubnews
    /\ Len(run[r].hist[2][1].subnews) = 1
    /\ row.hasSub
    /\ \E l \in BagToSet(links) : l[1] = row.id

\* C25: a run stops at its first failing category.  The provider is asked
\* for a category only when every category before it is committed, a run that
\* has ended in failure has asked for no category beyond the one after those
\* it committed, and a run that has ended takes no further step: it fetches,
\* resolves and writes nothing more.
C25_StopsAtFailure ==
  /\ [](\A r \in Runs :
         (run[r].pc = "done" /\ run[r].res.status = "error")
         => /\ run[r].reqs <= Len(run[r].hist) + 1
            /\ run[r].reqs >= Len(run[r].hist)
            /\ run[r].ci <= Len(run[r].hist) + 1
            /\ tx[r] = NoTx)
  /\ [][\A r \in Runs :
          /\ run'[r].reqs # run[r].reqs
             => /\ run'[r].reqs = run[r].reqs + 1
                /\ Len(run[r].hist) = run[r].reqs
                /\ run[r].ci = run'[r].reqs
          /\ ("resolve" \in run'[r].work /\ run'[r].pc = "begin")
             => Len(run[r].hist) = run[r].ci - 1
          /\ run[r].pc = "done"
             => (run'[r] = run[r] /\ tx'[r] = tx[r])
          /\ (\A q \in Runs : run[q].pc = "done") => (news' = news /\ links' = links)]_vars

\* A run has failed in the first category, for which alone it asked the
\* provider, while the provider had an item for a later category.
C25_Witness ==
  \E r \in Runs :
    /\ run[r].pc = "done"
    /\ run[r].res.status = "error"
    /\ run[r].res.err \in {"storage", "ER_CHECK_CONSTRAINT_VIOLATED"}
    /\ run[r].hist = <<>>
    /\ run[r].reqs = 1
    /\ Len(feed[Len(Categories)]) > 0
    /\ \A q \in Runs : run[q].pc = "done"

\* C26: a call of addNewsList that fails leaves the table genre as it was: a
\* run that has ended in the failure of a category whose genre row it created
\* itself finds no such row stored, unless another run has created it since.
C26_GenreRolledBack ==
  \A r \in Runs :
    (/\ run[r].pc = "done"
     /\ run[r].res.status = "error"
     /\ Len(run[r].hist) < run[r].ci
     /\ run[r].ci \in run[r].made)
    => \/ \A g \in genre : g.name # Categories[run[r].ci]
       \/ \E q \in Runs \ {r} : run[r].ci \in run[q].made

\* C27: two updates of the checkpoint by fetchApi are at least 10 days apart:
\* when a fetchApi run updates the checkpoint after another fetchApi run has
\* (and no tryFetch run has), the value it replaces is 10 days old or older,
\* whatever the interleaving of the requests.
C27_UpdatesApart ==
  [][\A r \in Runs :
       (/\ run[r].kind = "fetchApi"
        /\ run[r].pc = "update"
        /\ run'[r].res.status = "ok"
        /\ \E q \in Runs \ {r} : run[q].kind = "fetchApi" /\ run[q].res.status = "ok"
        /\ \A q \in Runs \ {r} : run[q].kind = "tryFetch" => run[q].res.status # "ok")
       => now - fecha >= CooldownDays * TicksPerDay]_vars

\* C28: the boundary of the cooldown.  With a checkpoint row, checkFetchDate
\* throws the cooldown error exactly when less than 10 days have passed since
\* the checkpoint and lets the run go on at 10 days or more; the number of
\* remaining days it reports, for a checkpoint not in the future, is a whole
\* number from 1 to 10.
C28_Boundary ==
  [][\A r \in Runs :
       (run[r].pc = "check" /\ run'[r].pc # "check" /\ fecha # NoRow)
       => LET elapsed == now - fecha
              rejected == run'[r].pc = "done" /\ run'[r].res.err = "cooldown"
              accepted == run'[r].pc = "fetch" /\ run'[r].res = NoRes
          IN /\ rejected <=> elapsed < CooldownDays * TicksPerDay
             /\ accepted <=> elapsed >= CooldownDays * TicksPerDay
             /\ (rejected /\ elapsed >= 0)
                => (run'[r].res.n \in 1..CooldownDays /\ run'[r].res.http = 500)]_vars

\* One request was rejected one tick before the 10 days were over, with 1
\* day remaining, and the next was accepted at 10 days exactly.
C28_Witness ==
  \E q, r \in Runs :
    /\ run[q].res.err = "cooldown"
    /\ run[q].res.n = 1
    /\ run[r].kind = "fetchApi"
    /\ run[r].pc = "fetch"
    /\ run[r].reqs = 0
    /\ fecha # NoRow
    /\ now - fecha = CooldownDays * TicksPerDay

\* C29: ingestion changes no stored row in anything but has_subnews, and that
\* only from false to true: every row of news is there, with the same id,
\* news_url, thumbnail, image_url, news_genre and is_active, after every step
\* of a run, also one that ingests the row's url again with another payload
\* or under another category.
C29_RowsKept ==
  [][admin' = admin
     => \A row \in news :
          \E kept \in news' :
            /\ kept = [row EXCEPT !.hasSub = kept.hasSub]
            /\ row.hasSub => kept.hasSub]_vars

\* A run has stored url 1 twice: under the first category with a thumbnail
\* and no sub-item, under the second without thumbnail and with a sub-item.
\* Its row, deactivated in between, is that of the first category, with
\* has_subnews now true.
C29_Witness ==
  \E r \in Runs : \E row \in RowsOfUrl(1) :
    /\ Len(run[r].hist) = 2
    /\ Len(run[r].hist[1]) = 1
    /\ Len(run[r].hist[2]) = 1
    /\ run[r].hist[1][1].newsUrl = 1
    /\ run[r].hist[2][1].newsUrl = 1
    /\ run[r].hist[1][1].thumbnail = "url"
    /\ run[r].hist[2][1].thumbnail = "absent"
    /\ ~ run[r].hist[1][1].hasSubnews
    /\ Len(run[r].hist[2][1].subnews) = 1
    /\ row.thumbnail = "url"
    /\ row.genre = 1
    /\ ~ row.active
    /\ row.hasSub

=============================================================================
